---- MODULE Spec2Model ----
(***************************************************************************)
(* Model of generate_test_cases.py: start-up configuration checks, the     *)
(* per-story loop of main, parse_test_cases and the merge scan of          *)
(* save_to_excel.                                                          *)
(*                                                                         *)
(* Text is a sequence of tokens.  A token is a record [t |-> ...]:         *)
(*   "fence" three backticks, "json" the word json, "tag" any other        *)
(*   language tag, "nl" a newline, "sp" a blank, "junk" text that is not   *)
(*   JSON, and "doc" one complete JSON document whose decoded value is v.  *)
(* A worksheet row r >= 1 holds the data row df[r] (TLA+ index r is the    *)
(* pandas index r-1); worksheet row 0 is the header.                       *)
(***************************************************************************)
EXTENDS Integers, Sequences, FiniteSets, TLC

\* ------------------------------------------------------------------ bounds
MaxSteps   == 3    \* longest 'Test steps' list drawn for a single record
MaxCases   == 2    \* longest top-level list of records drawn
MaxRows    == 6    \* longest row sequence drawn for the merge scan
MaxStories == 3    \* most stories in the input file

\* ------------------------------------------------------- JSON value model
Absent  == "<absent>"                 \* key not present in a mapping
AbsentV == [kind |-> "absent"]        \* 'Test steps' key not present
NumV    == [kind |-> "num"]           \* number, true, false or null
StrV(n) == [kind |-> "str", n |-> n]  \* a JSON string of n characters
ListV(e) == [kind |-> "list", elems |-> e]

EmptyDict ==
  [kind |-> "dict", Title |-> Absent, Objective |-> Absent,
   Precondition |-> Absent, Status |-> Absent, Test_steps |-> AbsentV,
   Step |-> Absent, Test_Data |-> Absent, Expected_Result |-> Absent]

StepDict(s, d, e) ==
  [EmptyDict EXCEPT !.Step = s, !.Test_Data = d, !.Expected_Result = e]

CaseDict(t, o, p, st, steps) ==
  [EmptyDict EXCEPT !.Title = t, !.Objective = o, !.Precondition = p,
                    !.Status = st, !.Test_steps = steps]

\* dict.get(key, default)
Get(d, k, default) == IF d[k] = Absent THEN default ELSE d[k]

\* ------------------------------------------------------------ text model
Tok(t)   == [t |-> t]
DocTok(v) == [t |-> "doc", v |-> v]
FENCE == Tok("fence")
JSON  == Tok("json")
TAG   == Tok("tag")
NL    == Tok("nl")
SP    == Tok("sp")
JUNK  == Tok("junk")

NoneText == [kind |-> "none"]
Text(s)  == [kind |-> "text", s |-> s]

IsSpace(tok) == tok.t \in {"nl", "sp"}

SubSeqFrom(s, i) == IF i > Len(s) THEN <<>> ELSE SubSeq(s, i, Len(s))

\* str.strip()
Strip(s) ==
  LET keep == {i \in 1..Len(s) : ~IsSpace(s[i])}
  IN IF keep = {} THEN <<>>
     ELSE LET lo == CHOOSE i \in keep : \A j \in keep : i <= j
              hi == CHOOSE i \in keep : \A j \in keep : j <= i
          IN SubSeq(s, lo, hi)

\* Length of the opening  ```(?:json)?\n  matched at the head of s, 0 if none.
OpenLen_NoTag(s) ==
  IF Len(s) >= 2 /\ s[1].t = "fence" /\ s[2].t = "nl" THEN 2 ELSE 0

OpenLen(s) ==
  IF Len(s) >= 3 /\ s[1].t = "fence" /\ s[2].t = "json" /\ s[3].t = "nl" THEN 3
  ELSE IF Len(s) >= 2 /\ s[1].t = "fence" /\ s[2].t = "nl" THEN 2
  ELSE 0

\* Positions k > from where  \n```  begins; (.*?) takes the least of them.
CloseAt(s, from) ==
  {k \in (from + 1)..(Len(s) - 1) : s[k].t = "nl" /\ s[k + 1].t = "fence"}

\* re.sub(r"```(?:json)?\n(.*?)\n```", r"\1", s, flags=re.S)
RECURSIVE ReSub(_)
ReSub(s) ==
  IF s = <<>> THEN <<>>
  ELSE LET o == OpenLen(s)
           c == CloseAt(s, o)
       IN IF o > 0 /\ c # {}
          THEN LET k == CHOOSE x \in c : \A y \in c : x <= y
               IN SubSeq(s, o + 1, k - 1) \o ReSub(SubSeqFrom(s, k + 2))
          ELSE <<s[1]>> \o ReSub(Tail(s))

\* json.loads: one document, white space around it allowed, anything else
\* is a JSONDecodeError.
JsonLoads(s) ==
  LET b == Strip(s)
  IN IF Len(b) = 1 /\ b[1].t = "doc"
     THEN [ok |-> TRUE, v |-> b[1].v]
     ELSE [ok |-> FALSE, v |-> NumV]

\* --------------------------------------------------- parse_test_cases
Return(rows) == [kind |-> "return", rows |-> rows]
Raise(exc)   == [kind |-> "raise", exc |-> exc, rows |-> <<>>]

\* the dict literal appended for one step (first_step is the loop flag)
StepRow_AllFilled(case, step, user_story_id, first_step) ==
  [Name            |-> Get(case, "Title", "N/A"),
   Objective       |-> Get(case, "Objective", "N/A"),
   Precondition    |-> Get(case, "Precondition", "N/A"),
   Step            |-> Get(step, "Step", "N/A"),
   Test_Data       |-> Get(step, "Test_Data", "N/A"),
   Expected_Result |-> Get(step, "Expected_Result", "N/A"),
   Coverage        |-> user_story_id,
   Status          |-> Get(case, "Status", "Draft")]

StepRow(case, step, user_story_id, first_step) ==
  [Name            |-> IF first_step THEN Get(case, "Title", "N/A") ELSE "",
   Objective       |-> IF first_step THEN Get(case, "Objective", "N/A") ELSE "",
   Precondition    |-> IF first_step THEN Get(case, "Precondition", "N/A") ELSE "",
   Step            |-> Get(step, "Step", "N/A"),
   Test_Data       |-> Get(step, "Test_Data", "N/A"),
   Expected_Result |-> Get(step, "Expected_Result", "N/A"),
   Coverage        |-> IF first_step THEN user_story_id ELSE "",
   Status          |-> IF first_step THEN Get(case, "Status", "Draft") ELSE ""]

\* what  for step in steps  iterates over; a string yields its characters
StepItems(steps) ==
  CASE steps.kind = "list" -> steps.elems
    [] steps.kind = "str"  -> [i \in 1..steps.n |-> StrV(1)]
    [] OTHER               -> <<>>

\* case.get(...) on a non-mapping, iterating a non-iterable, step.get(...)
\* on a non-mapping: the exception the loop body lets escape, "" if none
CaseException(case) ==
  IF case.kind # "dict" THEN "AttributeError"
  ELSE IF case.Test_steps.kind \in {"num"} THEN "TypeError"
  ELSE IF \E i \in 1..Len(StepItems(case.Test_steps)) :
             StepItems(case.Test_steps)[i].kind # "dict"
       THEN "AttributeError"
  ELSE ""

CaseRows(case, user_story_id) ==
  LET items == StepItems(case.Test_steps)
  IN [i \in 1..Len(items) |-> StepRow(case, items[i], user_story_id, i = 1)]

\* the  for case in response_json  loop
RECURSIVE ForCases(_, _, _)
ForCases(cases, user_story_id, test_cases) ==
  IF cases = <<>> THEN Return(test_cases)
  ELSE IF CaseException(Head(cases)) # ""
       THEN Raise(CaseException(Head(cases)))
       ELSE ForCases(Tail(cases), user_story_id,
                     test_cases \o CaseRows(Head(cases), user_story_id))

parse_test_cases(response_text, user_story_id) ==
  IF response_text.kind = "none" \/ response_text.s = <<>>
  THEN Return(<<>>)
  ELSE LET stripped == Strip(ReSub(response_text.s))
           dec == JsonLoads(stripped)
       IN IF ~dec.ok THEN Return(<<>>)
          ELSE LET response_json ==
                     IF dec.v.kind = "dict" THEN ListV(<<dec.v>>) ELSE dec.v
               IN IF response_json.kind # "list" THEN Return(<<>>)
                  ELSE ForCases(response_json.elems, user_story_id, <<>>)


\* ------------------------------------------------------------ input sets
StoryIds == <<"US1", "US2", "US3", "US4", "US5">>

Step1 == StepDict("1. open", "user a", "opened")
Step2 == StepDict("2. submit", Absent, "saved")

\* items a 'Test steps' list is drawn from: two steps, an empty mapping, a number
StepItemSet == {Step1, Step2, EmptyDict, NumV}

SeqsUpTo(S, n) == UNION {[1..k -> S] : k \in 0..n}

StepsSet ==
  {ListV(e) : e \in SeqsUpTo(StepItemSet, MaxSteps)}
    \cup {AbsentV, NumV, StrV(0), StrV(2)}

TitleSet == {Absent, "", "Verify Login", "Verify Logout"}

SingleRecords ==
  {CaseDict(t, "obj", "pre", "Passed", st) : t \in TitleSet, st \in StepsSet}
    \cup {CaseDict(t, Absent, Absent, Absent, st) : t \in TitleSet, st \in StepsSet}

\* elements a top-level list is drawn from
ListItemSet ==
  {CaseDict(t, "obj", Absent, Absent, ListV(e)) :
       t \in {"", "Verify Login"}, e \in {<<>>, <<Step1>>, <<Step1, Step2>>}}
    \cup {NumV}

DocSet ==
  SingleRecords
    \cup {ListV(e) : e \in SeqsUpTo(ListItemSet, MaxCases)}
    \cup {NumV, StrV(2)}

\* payloads: a JSON document, possibly with white space around it, text that
\* is not JSON, and the empty text
PayloadSet ==
  {<<DocTok(v)>> : v \in DocSet}
    \cup {<<NL, DocTok(NumV), SP>>, <<SP, DocTok(CaseDict("Verify Login", "obj", "pre", "Passed", ListV(<<Step1, Step2>>))), NL>>}
    \cup {<<JUNK>>, <<>>}

WrapperSet ==
  {"plain", "fence", "fence_json", "fence_tag", "ws_fence_ws", "ws_fence_json_ws"}

Wrap(w, p) ==
  CASE w = "plain"            -> p
    [] w = "fence"            -> <<FENCE, NL>> \o p \o <<NL, FENCE>>
    [] w = "fence_json"       -> <<FENCE, JSON, NL>> \o p \o <<NL, FENCE>>
    [] w = "fence_tag"        -> <<FENCE, TAG, NL>> \o p \o <<NL, FENCE>>
    [] w = "ws_fence_ws"      -> <<SP, NL, FENCE, NL>> \o p \o <<NL, FENCE, NL, SP>>
    [] w = "ws_fence_json_ws" -> <<NL, FENCE, JSON, NL>> \o p \o <<NL, FENCE, SP, NL>>

\* rows the merge scan is exercised on, whether or not a parser made them
RowOf(name, group, step) ==
  [Name |-> name, Objective |-> group, Precondition |-> group,
   Step |-> step, Test_Data |-> "d", Expected_Result |-> "e",
   Coverage |-> group, Status |-> group]

RowSet ==
  {RowOf("Verify Login", "g1", "s"), RowOf("Verify Logout", "g2", "s"),
   RowOf("", "", "s"), RowOf("", "g3", "s")}

\* what generate_test_cases can hand back for one story
GoodDoc2 == CaseDict("Verify Login", "obj", "pre", Absent, ListV(<<Step1, Step2>>))
GoodDoc3 == CaseDict("Verify Logout", Absent, "pre", "Passed", ListV(<<Step1, Step2, Step1>>))
GoodDoc1 == CaseDict("", "obj", "pre", "Passed", ListV(<<Step2>>))

ModelOutcomes ==
  {NoneText, Text(<<>>), Text(<<JUNK>>),
   Text(<<DocTok(NumV)>>),
   Text(<<DocTok(ListV(<<NumV>>))>>),
   Text(<<FENCE, JSON, NL, DocTok(GoodDoc2), NL, FENCE>>),
   Text(<<DocTok(GoodDoc3)>>),
   Text(<<DocTok(ListV(<<GoodDoc1>>))>>)}

\* file names as character sequences
OutputFileSet ==
  {<<"r", ".", "x", "l", "s", "x">>, <<"R", ".", "X", "L", "S", "X">>,
   <<"r", ".", "t", "x", "t">>, <<"r", ".", "x", "l", "s">>,
   <<"r", ".", "x", "l", "s", "x", ".", "t">>, <<"x", "l", "s", "x">>}

\* ---------------------------------------------------- module-level checks
Lower(f) ==
  [i \in 1..Len(f) |->
     CASE f[i] = "X" -> "x" [] f[i] = "L" -> "l" [] f[i] = "S" -> "s"
       [] f[i] = "R" -> "r" [] f[i] = "T" -> "t" [] OTHER -> f[i]]

EndsWith(f, suffix) ==
  Len(f) >= Len(suffix)
    /\ SubSeq(f, Len(f) - Len(suffix) + 1, Len(f)) = suffix

Contains(f, part) ==
  \E i \in 1..(Len(f) - Len(part) + 1) : SubSeq(f, i, i + Len(part) - 1) = part

DotXlsx == <<".", "x", "l", "s", "x">>

\* args.output_file.lower().endswith(".xlsx")
OutputFileOK_Contains(f) == Contains(Lower(f), DotXlsx)

OutputFileOK(f) == EndsWith(Lower(f), DotXlsx)

\* not api_key
ApiKeyMissing(k) == k \in {"<none>", ""}

\* ---------------------------------------------------------- save_to_excel
\* df.columns.get_loc(col) for the five merged columns
GroupCols == {"Name", "Objective", "Precondition", "Coverage", "Status"}

HEADERS ==
  <<"Name", "Objective", "Precondition", "Step", "Test_Data",
    "Expected_Result", "Coverage", "Status">>

ColIdx(col) == (CHOOSE i \in 1..Len(HEADERS) : HEADERS[i] = col) - 1

\* if row - start_row > 1
MergeCond_AtLeastOne(r, s) == r - s >= 1

MergeCond(r, s) == r - s > 1

\* the five worksheet.merge_range calls of one group
MergeCalls(d, r, s) ==
  {[first_row |-> s + 1, last_row |-> r, col |-> c, col_idx |-> ColIdx(c),
    value |-> d[s + 1][c]] : c \in GroupCols}


\* ------------------------------------------------------------------ state
VARIABLES
  pc,             \* position in the script
  api_key,        \* os.getenv("GEMINI_API_KEY")
  argv_ok,        \* the command line names an input file
  output_file,    \* args.output_file
  input_state,    \* the input file: "missing", "unreadable", "nocolumns", "ok"
  input_rows,     \* number of rows of the input file
  user_stories,   \* list returned by read_user_stories
  idx,            \* position of the for loop of main (1-based)
  response,       \* value returned by generate_test_cases
  all_test_cases, \* accumulator of main
  parse_result,   \* outcome of the last parse_test_cases call
  df,             \* DataFrame written by save_to_excel
  row,            \* scan position of save_to_excel
  start_row,      \* start_row of save_to_excel
  merges,         \* sequence of merge_range calls issued
  exit_status,    \* process exit status, -1 while running
  input_touched,  \* the input file was checked or read
  file_written,   \* the output workbook was written
  calls,          \* story positions generate_test_cases was called for
  responses,      \* response received for each processed story
  save_args,      \* arguments of the save_to_excel calls made
  payload,        \* parse harness: the JSON payload
  wrapper         \* parse harness: how the payload is wrapped

vars ==
  <<pc, api_key, argv_ok, output_file, input_state, input_rows, user_stories,
    idx, response, all_test_cases, parse_result, df, row, start_row, merges,
    exit_status, input_touched, file_written, calls, responses, save_args,
    payload, wrapper>>

envVars   == <<api_key, argv_ok, output_file, input_state, input_rows>>
scanVars  == <<df, row, start_row, merges, file_written, save_args>>
loopVars  == <<user_stories, idx, response, all_test_cases, parse_result,
               calls, responses>>
harnessVars == <<payload, wrapper>>

InitCommon ==
  /\ parse_result = Return(<<>>)
  /\ df = <<>>
  /\ row = 0
  /\ start_row = 0
  /\ merges = <<>>
  /\ exit_status = -1
  /\ file_written = FALSE
  /\ calls = <<>>
  /\ responses = <<>>
  /\ save_args = <<>>

\* the whole script, from the first module-level statement
Init ==
  /\ InitCommon
  /\ pc = "start"
  /\ api_key \in {"<none>", "", "key"}
  /\ argv_ok \in BOOLEAN
  /\ output_file \in OutputFileSet
  /\ input_state \in {"missing", "unreadable", "nocolumns", "ok"}
  /\ input_rows \in 0..MaxStories
  /\ user_stories = <<>>
  /\ idx = 0
  /\ response = NoneText
  /\ all_test_cases = <<>>
  /\ input_touched = FALSE
  /\ payload = <<>>
  /\ wrapper = "plain"

\* ---------------------------------------------------- module-level script
CheckApiKey ==
  /\ pc = "start"
  /\ IF ApiKeyMissing(api_key)
     THEN pc' = "exit" /\ exit_status' = 1
     ELSE pc' = "args" /\ UNCHANGED exit_status
  /\ UNCHANGED <<envVars, loopVars, scanVars, harnessVars, input_touched>>

ParseArgs ==
  /\ pc = "args"
  /\ IF ~argv_ok
     THEN pc' = "exit" /\ exit_status' = 2
     ELSE pc' = "ext" /\ UNCHANGED exit_status
  /\ UNCHANGED <<envVars, loopVars, scanVars, harnessVars, input_touched>>

ValidateExtension ==
  /\ pc = "ext"
  /\ IF ~OutputFileOK(output_file)
     THEN pc' = "exit" /\ exit_status' = 1
     ELSE pc' = "main" /\ UNCHANGED exit_status
  /\ UNCHANGED <<envVars, loopVars, scanVars, harnessVars, input_touched>>

\* ------------------------------------------------------------------- main
MainEnter ==
  /\ pc = "main"
  /\ input_touched' = TRUE
  /\ IF input_state = "missing"
     THEN pc' = "done" /\ exit_status' = 0
     ELSE pc' = "read" /\ UNCHANGED exit_status
  /\ UNCHANGED <<envVars, loopVars, scanVars, harnessVars>>

read_user_stories ==
  /\ pc = "read"
  /\ user_stories' =
       IF input_state = "ok"
       THEN [i \in 1..input_rows |-> StoryIds[i]]
       ELSE <<>>
  /\ idx' = 1
  /\ pc' = "loop"
  /\ UNCHANGED <<envVars, response, all_test_cases, parse_result, calls,
                 responses, scanVars, harnessVars, exit_status, input_touched>>

generate_test_cases ==
  /\ pc = "loop"
  /\ idx <= Len(user_stories)
  /\ response' \in ModelOutcomes
  /\ calls' = Append(calls, idx)
  /\ pc' = "got"
  /\ UNCHANGED <<envVars, user_stories, idx, all_test_cases, parse_result,
                 responses, scanVars, harnessVars, exit_status, input_touched>>

\* the rest of the loop body: the  if not response: continue  test, the
\* parse, the extend; an exception from the parse ends the process
ProcessResponse ==
  /\ pc = "got"
  /\ responses' = Append(responses, response)
  /\ IF response.kind = "none" \/ response.s = <<>>
     THEN /\ idx' = idx + 1
          /\ pc' = "loop"
          /\ UNCHANGED <<all_test_cases, parse_result, exit_status>>
     ELSE LET res == parse_test_cases(response, user_stories[idx])
          IN /\ parse_result' = res
             /\ IF res.kind = "raise"
                THEN /\ pc' = "exit"
                     /\ exit_status' = 1
                     /\ UNCHANGED <<idx, all_test_cases>>
                ELSE /\ all_test_cases' = all_test_cases \o res.rows
                     /\ idx' = idx + 1
                     /\ pc' = "loop"
                     /\ UNCHANGED exit_status
  /\ UNCHANGED <<envVars, user_stories, response, calls, scanVars,
                 harnessVars, input_touched>>

\* ---------------------------------------------------------- save_to_excel
\* the call, the empty test, the DataFrame and the start of the scan
save_to_excel ==
  /\ pc = "loop"
  /\ idx > Len(user_stories)
  /\ save_args' = Append(save_args, all_test_cases)
  /\ IF all_test_cases = <<>>
     THEN /\ pc' = "done"
          /\ exit_status' = 0
          /\ UNCHANGED <<df, row>>
     ELSE /\ df' = all_test_cases
          /\ row' = 1
          /\ pc' = "outer"
          /\ UNCHANGED exit_status
  /\ UNCHANGED <<envVars, loopVars, start_row, merges, file_written,
                 harnessVars, input_touched>>

\* while row < len(df): start_row = row
ScanOuter ==
  /\ pc = "outer"
  /\ IF row < Len(df)
     THEN /\ start_row' = row
          /\ pc' = "inner"
          /\ UNCHANGED <<file_written, exit_status>>
     ELSE /\ file_written' = TRUE
          /\ pc' = "done"
          /\ exit_status' = 0
          /\ UNCHANGED start_row
  /\ UNCHANGED <<envVars, loopVars, df, row, merges, save_args, harnessVars,
                 input_touched>>

\* while row < len(df) and df.loc[row, "Name"] == "": row += 1
ScanInner ==
  /\ pc = "inner"
  /\ IF row < Len(df) /\ df[row + 1].Name = ""
     THEN row' = row + 1 /\ pc' = "inner"
     ELSE row' = row /\ pc' = "merge"
  /\ UNCHANGED <<envVars, loopVars, df, start_row, merges, file_written,
                 save_args, harnessVars, exit_status, input_touched>>

SetToSeq(S) ==
  LET cols == <<"Name", "Objective", "Precondition", "Coverage", "Status">>
  IN [i \in 1..Len(cols) |-> CHOOSE m \in S : m.col = cols[i]]

\* if row - start_row > 1: merge the five columns; row += 1
ScanMerge ==
  /\ pc = "merge"
  /\ merges' = IF MergeCond(row, start_row)
               THEN merges \o SetToSeq(MergeCalls(df, row, start_row))
               ELSE merges
  /\ row' = row + 1
  /\ pc' = "outer"
  /\ UNCHANGED <<envVars, loopVars, df, start_row, file_written, save_args,
                 harnessVars, exit_status, input_touched>>

Next ==
  \/ CheckApiKey \/ ParseArgs \/ ValidateExtension
  \/ MainEnter \/ read_user_stories
  \/ generate_test_cases \/ ProcessResponse
  \/ save_to_excel \/ ScanOuter \/ ScanInner \/ ScanMerge

Spec == Init /\ [][Next]_vars

\* ------------------------------------------- save_to_excel on drawn rows
InitSave ==
  /\ InitCommon
  /\ pc = "loop"
  /\ api_key = "key"
  /\ argv_ok = TRUE
  /\ output_file = <<"r", ".", "x", "l", "s", "x">>
  /\ input_state = "ok"
  /\ input_rows = 0
  /\ user_stories = <<>>
  /\ idx = 1
  /\ response = NoneText
  /\ all_test_cases \in SeqsUpTo(RowSet, MaxRows)
  /\ input_touched = TRUE
  /\ payload = <<>>
  /\ wrapper = "plain"

NextSave == save_to_excel \/ ScanOuter \/ ScanInner \/ ScanMerge

SpecSave == InitSave /\ [][NextSave]_vars

\* ---------------------------------------- parse_test_cases on drawn text
InitParse ==
  /\ InitCommon
  /\ pc = "parse"
  /\ api_key = "key"
  /\ argv_ok = TRUE
  /\ output_file = <<"r", ".", "x", "l", "s", "x">>
  /\ input_state = "ok"
  /\ input_rows = 1
  /\ user_stories \in {<<StoryIds[1]>>, <<StoryIds[2]>>}
  /\ idx = 1
  /\ payload \in PayloadSet
  /\ wrapper \in WrapperSet
  /\ response \in {Text(Wrap(wrapper, payload))} \cup
                    (IF wrapper = "plain" /\ payload = <<>> THEN {NoneText} ELSE {})
  /\ all_test_cases = <<>>
  /\ input_touched = TRUE

ParseCall ==
  /\ pc = "parse"
  /\ parse_result' = parse_test_cases(response, user_stories[idx])
  /\ pc' = "parsed"
  /\ UNCHANGED <<envVars, user_stories, idx, response, all_test_cases, calls,
                 responses, scanVars, harnessVars, exit_status, input_touched>>

NextParse == ParseCall

SpecParse == InitParse /\ [][NextParse]_vars


\* =============================================================== claims
\* ------------------------------------------------ groups of a row sequence
\* rows that start a group: the Name is not blank
GroupStarts(d) == {i \in 1..Len(d) : d[i].Name # ""}

\* last row of the group that starts at row i
GroupEnd(d, i) ==
  CHOOSE j \in i..Len(d) :
    /\ \A k \in (i + 1)..j : d[k].Name = ""
    /\ (j = Len(d) \/ d[j + 1].Name # "")

\* first row of the group that holds row r
GroupStartOf(d, r) ==
  CHOOSE i \in GroupStarts(d) : i <= r /\ \A j \in GroupStarts(d) : j <= r => j <= i

BlankMarkerRows(d) == d # <<>> /\ d[1].Name # ""

IssuedRanges ==
  {[first_row |-> merges[k].first_row, last_row |-> merges[k].last_row,
    col |-> merges[k].col] : k \in 1..Len(merges)}

GroupRanges(d) ==
  {[first_row |-> i, last_row |-> GroupEnd(d, i), col |-> c] :
      i \in {g \in GroupStarts(d) : GroupEnd(d, g) > g}, c \in GroupCols}

\* C1: when the scan of save_to_excel has finished on rows that satisfy the
\* blank-marker invariant, the merged ranges are exactly, for every group of
\* two or more rows and each of the five group columns, the range from the
\* group's first row through its last row.
C1_MergesExactlyTheGroups ==
  (pc = "done" /\ BlankMarkerRows(df)) => IssuedRanges = GroupRanges(df)

\* C2: every merge_range call writes the value that the first row of the
\* group holding the merged rows has in that column.
C2_MergedValueIsFirstRowValue ==
  BlankMarkerRows(df) =>
    \A k \in 1..Len(merges) :
      merges[k].value = df[GroupStartOf(df, merges[k].first_row)][merges[k].col]

\* ------------------------------------------------------------- C10
RangesWellFormed ==
  \A k \in 1..Len(merges) :
    /\ merges[k].last_row - merges[k].first_row >= 1
    /\ merges[k].first_row >= 1
    /\ merges[k].last_row <= Len(df)
    /\ \A j \in 1..Len(merges) :
         (j # k /\ merges[j].col = merges[k].col) =>
           (merges[j].last_row < merges[k].first_row
              \/ merges[k].last_row < merges[j].first_row)

\* steps the scan can still take: three per row left, less the phase
ScanMeasure(p, r) ==
  3 * (Len(df) + 2 - r)
    - (CASE p = "outer" -> 0 [] p = "inner" -> 1 [] p = "merge" -> 2 [] OTHER -> 0)

ScanTerminates ==
  pc \in {"outer", "inner", "merge"} =>
    /\ ScanMeasure(pc, row) >= 1
    /\ (pc' \in {"outer", "inner", "merge"} =>
          ScanMeasure(pc', row') < ScanMeasure(pc, row))
    /\ pc' \in {"outer", "inner", "merge", "done"}

\* C10: for every non-empty row sequence the merge scan terminates (every
\* step of the scan lowers a measure that stays positive) and every range it
\* issues spans at least two worksheet rows, lies within worksheet rows
\* 1..len(rows), and overlaps no other range of the same column.
C10_ScanTerminatesWithWellFormedRanges ==
  [][ScanTerminates]_vars /\ [](RangesWellFormed)

\* a finished scan over rows that break the blank-marker invariant, with two
\* runs merged in every group column
C10_Witness ==
  /\ pc = "done"
  /\ df # <<>>
  /\ df[1].Name = ""
  /\ Len(merges) >= 10

\* ------------------------------------------------- parse_test_cases claims
Decoded == JsonLoads(payload)

WellFormedRecord(v) ==
  /\ v.kind = "dict"
  /\ v.Test_steps.kind \in {"absent", "list"}
  /\ (v.Test_steps.kind = "list" =>
        \A i \in 1..Len(v.Test_steps.elems) : v.Test_steps.elems[i].kind = "dict")

StepsOf(v) == IF v.Test_steps.kind = "list" THEN v.Test_steps.elems ELSE <<>>

\* the decoded payload as a sequence of records
RecordsOf(v) == IF v.kind = "dict" THEN <<v>> ELSE v.elems

WellShaped(v) ==
  \/ WellFormedRecord(v)
  \/ (v.kind = "list" /\ \A i \in 1..Len(v.elems) : WellFormedRecord(v.elems[i]))

\* C3: a well-formed single record with N steps parses to exactly N rows in
\* step order, each with its own Step / Test Data / Expected Result; row 1
\* carries Name, Objective, Precondition, Status and the story ID as
\* Coverage, rows 2..N have those five fields empty; no steps, no rows.
C3_SingleRecordRows ==
  (pc = "parsed" /\ wrapper = "plain" /\ Decoded.ok /\ WellFormedRecord(Decoded.v)) =>
    LET v == Decoded.v
        steps == StepsOf(v)
        rows == parse_result.rows
    IN /\ parse_result.kind = "return"
       /\ Len(rows) = Len(steps)
       /\ \A k \in 1..Len(steps) :
            /\ rows[k].Step = Get(steps[k], "Step", "N/A")
            /\ rows[k].Test_Data = Get(steps[k], "Test_Data", "N/A")
            /\ rows[k].Expected_Result = Get(steps[k], "Expected_Result", "N/A")
            /\ (k = 1 =>
                  /\ rows[k].Name = Get(v, "Title", "N/A")
                  /\ rows[k].Objective = Get(v, "Objective", "N/A")
                  /\ rows[k].Precondition = Get(v, "Precondition", "N/A")
                  /\ rows[k].Coverage = user_stories[idx]
                  /\ rows[k].Status = Get(v, "Status", "Draft"))
            /\ (k > 1 =>
                  /\ rows[k].Name = ""
                  /\ rows[k].Objective = ""
                  /\ rows[k].Precondition = ""
                  /\ rows[k].Coverage = ""
                  /\ rows[k].Status = "")

C3_Witness ==
  /\ pc = "parsed"
  /\ wrapper = "plain"
  /\ Decoded.ok
  /\ WellFormedRecord(Decoded.v)
  /\ Len(StepsOf(Decoded.v)) >= 2
  /\ Len(parse_result.rows) >= 2

\* C4: parse_test_cases never lets an exception escape, and a payload that
\* does not decode to a mapping or a list of mappings with list-of-mapping
\* steps gives the empty sequence.
C4_NeverRaises ==
  pc = "parsed" =>
    /\ parse_result.kind = "return"
    /\ (~(Decoded.ok /\ WellShaped(Decoded.v)) => parse_result.rows = <<>>)

\* C5 as stated: wrapped in a fence with any language tag, or none, the
\* payload parses to the same rows as unwrapped.
C5_AnyFenceSameAsUnwrapped ==
  pc = "parsed" =>
    parse_result = parse_test_cases(Text(payload), user_stories[idx])

\* C5 amended: wrapped in a fence with no language tag or with the tag json,
\* white space around the fence allowed, the payload parses to the same
\* result as unwrapped.
C5_JsonFenceSameAsUnwrapped ==
  (pc = "parsed"
     /\ wrapper \in {"fence", "fence_json", "ws_fence_ws", "ws_fence_json_ws"}) =>
    parse_result = parse_test_cases(Text(payload), user_stories[idx])

C5_Witness ==
  /\ pc = "parsed"
  /\ wrapper = "ws_fence_json_ws"
  /\ parse_result.kind = "return"
  /\ Len(parse_result.rows) >= 2

RECURSIVE RowsBefore(_, _)
RowsBefore(recs, i) ==
  IF i <= 1 THEN 0 ELSE RowsBefore(recs, i - 1) + Len(StepsOf(recs[i - 1]))

\* C9: in the rows parsed from mapping records, each record's run of rows
\* has a non-blank Name on its first row and a blank Name on the others, so
\* the groups read off the Name column are the records that have steps.
C9_BlankMarkerInvariant ==
  (pc = "parsed" /\ wrapper = "plain" /\ Decoded.ok /\ WellShaped(Decoded.v)) =>
    LET recs == RecordsOf(Decoded.v)
        rows == parse_result.rows
    IN /\ parse_result.kind = "return"
       /\ \A i \in 1..Len(recs) :
            \A k \in 1..Len(StepsOf(recs[i])) :
              (rows[RowsBefore(recs, i) + k].Name # "") <=> (k = 1)
       /\ Cardinality(GroupStarts(rows))
            = Cardinality({i \in 1..Len(recs) : StepsOf(recs[i]) # <<>>})

\* ------------------------------------------------------------ main claims
Ended == pc \in {"done", "exit"}

\* rows story i contributes: those parsed from its response, none when the
\* call failed or the response was empty, unparseable or malformed
StoryRows(i) ==
  LET res == parse_test_cases(responses[i], user_stories[i])
  IN IF res.kind = "return" THEN res.rows ELSE <<>>

RECURSIVE ConcatStoryRows(_)
ConcatStoryRows(n) ==
  IF n = 0 THEN <<>> ELSE ConcatStoryRows(n - 1) \o StoryRows(n)

\* C6: once the loop of main has begun, the run ends only after every story
\* was processed, whatever the outcome of each, and save_to_excel receives
\* the concatenation in input order of the rows of each story.
C6_BadStoryNeverStopsTheRun ==
  (Ended /\ calls # <<>>) =>
    /\ Len(responses) = Len(user_stories)
    /\ save_args = <<ConcatStoryRows(Len(user_stories))>>

\* C7: in a run of main that reads the stories, generate_test_cases is
\* called once per story in order, story i is processed before story i+1 is
\* called, and save_to_excel is called exactly once, after the last story,
\* with the accumulated rows.
C7_OneCallPerStoryOneSave ==
  /\ calls = [i \in 1..Len(calls) |-> i]
  /\ Len(calls) <= Len(user_stories)
  /\ Len(responses) \in {Len(calls), Len(calls) - 1}
  /\ (save_args # <<>> =>
        /\ Len(save_args) = 1
        /\ Len(responses) = Len(user_stories)
        /\ save_args[1] = all_test_cases)
  /\ ((Ended /\ idx >= 1) =>
        /\ Len(calls) = Len(user_stories)
        /\ Len(save_args) = 1)

\* C8: with the credential missing or an output name that does not end in
\* .xlsx (any case) the script never gets past its start-up checks: it ends
\* with a non-zero status, the input file is never checked or read, no model
\* call is made and nothing is written; a run inside main has passed both.
NameEndsInXlsx(f) ==
  /\ Len(f) >= 5
  /\ \A i \in 1..5 : Lower(f)[Len(f) - 5 + i] = DotXlsx[i]

C8_ConfigErrorsAbortBeforeWork ==
  /\ (api_key \in {"<none>", ""} \/ ~NameEndsInXlsx(output_file)) =>
       /\ pc \in {"start", "args", "ext", "exit"}
       /\ ~input_touched
       /\ calls = <<>>
       /\ save_args = <<>>
       /\ ~file_written
  /\ (pc = "exit" /\ calls = <<>>) => exit_status \in {1, 2}
  /\ pc \in {"main", "read", "loop", "got", "outer", "inner", "merge", "done"} =>
       (api_key = "key" /\ NameEndsInXlsx(output_file))

C8_Witness ==
  /\ pc = "exit"
  /\ exit_status = 1
  /\ api_key = "key"
  /\ output_file = <<"r", ".", "t", "x", "t">>
  /\ ~input_touched

====
